---- MODULE Spec2Model ----
(***************************************************************************)
(* Model of image_geometry/cameramodels.py: PinholeCameraModel and         *)
(* StereoCameraModel.                                                      *)
(*                                                                         *)
(* Numbers.  The code computes in float64.  A float is modelled by its     *)
(* value: <<s, m, e>> for s * m * 2^e with an odd significand m, and       *)
(* +inf, -inf and NaN.  Sums, products and quotients are rounded to the    *)
(* nearest float, ties to even, with gradual underflow and overflow to     *)
(* infinity, as IEEE 754 binary64 does.  The sign of zero is not modelled  *)
(* (Python's == does not see it and a division by either zero raises).     *)
(* math.sqrt is the square root rounded to the nearest float.              *)
(*                                                                         *)
(* None is modelled by the empty tuple for a matrix, by NoneInt for an     *)
(* integer field and by NoneStr for a string field.                        *)
(*                                                                         *)
(* A call's outcome is a record [exc, val, str]: exc is "none" for a       *)
(* normal return and the exception's class otherwise; val is the tuple of  *)
(* floats returned; str is the string returned (or a tag).                 *)
(***************************************************************************)
EXTENDS Integers, Sequences, FiniteSets, TLC

VARIABLES
    cam,      \* the PinholeCameraModel instance under test
    stereo,   \* the StereoCameraModel instance under test
    msg,      \* the caller's CameraInfo objects as the last fromCameraInfo left them
    call      \* the last call: operation, arguments, outcome

vars == <<cam, stereo, msg, call>>

---------------------------------------------------------------------------
(* Bounds of the model.                                                    *)

MaxFocal == 2       \* focal lengths fx, fy range over 0..MaxFocal
MaxCoord == 1       \* point and pixel coordinates, depths and deltas
MaxBin == 2         \* binning factors range over 0..MaxBin
ImageSize == 4      \* width and height of the images

---------------------------------------------------------------------------
(* float64.                                                                *)

Abs(n) == IF n < 0 THEN -n ELSE n

Sgn(n) == IF n < 0 THEN -1 ELSE IF n = 0 THEN 0 ELSE 1

Max(a, b) == IF a >= b THEN a ELSE b

Min(a, b) == IF a <= b THEN a ELSE b

\* The binary64 format: significands of Precision bits, the lowest bit of a
\* subnormal worth 2^MinExp, every finite value below 2^MaxExp.
Precision == 53
MinExp == -1074
MaxExp == 1024

\* Naturals of any size: the limbs of a number in base Base, lowest first,
\* the highest not 0; the empty tuple is 0.
LimbBits == 15
Base == 32768

RECURSIVE Pow2(_)
Pow2(n) == IF n = 0 THEN 1 ELSE 2 * Pow2(n - 1)

RECURSIVE BitLen(_)
BitLen(n) == IF n = 0 THEN 0 ELSE 1 + BitLen(n \div 2)

RECURSIVE BigOf(_)
BigOf(n) == IF n = 0 THEN <<>> ELSE <<n % Base>> \o BigOf(n \div Base)

RECURSIVE BTrim(_)
BTrim(a) == IF a = <<>> \/ a[Len(a)] # 0 THEN a ELSE BTrim(SubSeq(a, 1, Len(a) - 1))

\* The number of bits of a.
BLen(a) == IF a = <<>> THEN 0 ELSE LimbBits * (Len(a) - 1) + BitLen(a[Len(a)])

Limb(a, i) == IF i <= Len(a) THEN a[i] ELSE 0

RECURSIVE BAddFrom(_, _, _, _)
BAddFrom(a, b, i, c) ==
    IF i > Len(a) /\ i > Len(b) THEN (IF c = 0 THEN <<>> ELSE <<c>>)
    ELSE LET x == Limb(a, i) + Limb(b, i) + c
         IN  <<x % Base>> \o BAddFrom(a, b, i + 1, x \div Base)

BAdd(a, b) == BAddFrom(a, b, 1, 0)

RECURSIVE BSubFrom(_, _, _, _)
BSubFrom(a, b, i, c) ==
    IF i > Len(a) THEN <<>>
    ELSE LET x == a[i] - Limb(b, i) - c
         IN  <<IF x < 0 THEN x + Base ELSE x>>
             \o BSubFrom(a, b, i + 1, IF x < 0 THEN 1 ELSE 0)

\* a - b for a >= b
BSub(a, b) == BTrim(BSubFrom(a, b, 1, 0))

RECURSIVE BCmpFrom(_, _, _)
BCmpFrom(a, b, i) ==
    IF i = 0 THEN 0
    ELSE IF a[i] # b[i] THEN (IF a[i] < b[i] THEN -1 ELSE 1)
    ELSE BCmpFrom(a, b, i - 1)

\* -1, 0 or 1 as a is below, equal to or above b
BCmp(a, b) ==
    IF Len(a) # Len(b) THEN (IF Len(a) < Len(b) THEN -1 ELSE 1)
    ELSE BCmpFrom(a, b, Len(a))

RECURSIVE BMulSmallFrom(_, _, _, _)
BMulSmallFrom(a, k, i, c) ==
    IF i > Len(a) THEN (IF c = 0 THEN <<>> ELSE <<c>>)
    ELSE LET x == a[i] * k + c
         IN  <<x % Base>> \o BMulSmallFrom(a, k, i + 1, x \div Base)

\* a * k for 0 <= k < Base
BMulSmall(a, k) == IF k = 0 THEN <<>> ELSE BMulSmallFrom(a, k, 1, 0)

RECURSIVE BMulFrom(_, _, _)
BMulFrom(a, b, i) ==
    IF i > Len(b) THEN <<>>
    ELSE LET rest == BMulFrom(a, b, i + 1)
         IN  IF rest = <<>> THEN BMulSmall(a, b[i])
             ELSE BAdd(BMulSmall(a, b[i]), <<0>> \o rest)

BMul(a, b) == IF a = <<>> THEN a ELSE BMulFrom(a, b, 1)

\* a * 2^n
BShl(a, n) ==
    IF a = <<>> \/ n = 0 THEN a
    ELSE [i \in 1..(n \div LimbBits) |-> 0] \o BMulSmall(a, Pow2(n % LimbBits))

\* a \div 2^n
BShr(a, n) ==
    LET d == n \div LimbBits
        lo == Pow2(n % LimbBits)
        hi == Base \div lo
    IN  IF n = 0 THEN a
        ELSE IF d >= Len(a) THEN <<>>
        ELSE BTrim([i \in 1..(Len(a) - d) |->
                       (a[i + d] \div lo) + (Limb(a, i + d + 1) % lo) * hi])

\* bit i of a, the lowest being bit 0
BBit(a, i) == (Limb(a, i \div LimbBits + 1) \div Pow2(i % LimbBits)) % 2

\* a % 2^n # 0
BAnyBelow(a, n) ==
    \E i \in 1..Len(a) :
        \/ i <= n \div LimbBits /\ a[i] # 0
        \/ i = n \div LimbBits + 1 /\ a[i] % Pow2(n % LimbBits) # 0

RECURSIVE TrailingZeros(_)
\* the number of 0 bits below the lowest 1 bit of a # 0
TrailingZeros(a) ==
    IF a[1] = 0 THEN LimbBits + TrailingZeros(Tail(a))
    ELSE IF a[1] % 2 = 0 THEN 1 + TrailingZeros(<<a[1] \div 2>>)
    ELSE 0

RECURSIVE ShortDiv(_, _, _, _)
\* Limbs i, i-1 .. 1 of n divided by d < Base, r being the remainder of the
\* limbs above: <<quotient, remainder>>.
ShortDiv(n, d, i, r) ==
    IF i = 0 THEN <<<<>>, r>>
    ELSE LET x == r * Base + n[i]
             rest == ShortDiv(n, d, i - 1, x % d)
         IN  <<Append(rest[1], x \div d), rest[2]>>

RECURSIVE ShortFrac(_, _, _)
\* The limbs of r / d after the point, r < d < Base: at most n of them, and
\* none after a remainder 0: <<limbs, whether a remainder is left>>.
ShortFrac(r, d, n) ==
    IF n = 0 \/ r = 0 THEN <<<<>>, r # 0>>
    ELSE LET x == r * Base
             rest == ShortFrac(x % d, d, n - 1)
         IN  <<Append(rest[1], x \div d), rest[2]>>

\* The limb r \div d is at most what the leading limbs of r and d give, for
\* r < d * Base; and at most 2 less when the highest limb of d is at least
\* Base / 2.
DivEstimate(r, d) ==
    Min(Base - 1, (Limb(r, Len(d) + 1) * Base + Limb(r, Len(d))) \div d[Len(d)])

\* <<r \div d, r % d>>, from a q that is at least r \div d.
RECURSIVE DivDigit(_, _, _)
DivDigit(r, d, q) ==
    IF BCmp(BMulSmall(d, q), r) <= 0 THEN <<q, BSub(r, BMulSmall(d, q))>>
    ELSE DivDigit(r, d, q - 1)

RECURSIVE LongFrac(_, _, _)
\* The limbs of r / d after the point, r < d: at most n of them, and none
\* after a remainder 0: <<limbs, whether a remainder is left>>.
LongFrac(r, d, n) ==
    IF n = 0 \/ r = <<>> THEN <<<<>>, r # <<>>>>
    ELSE LET top == DivDigit(<<0>> \o r, d, DivEstimate(<<0>> \o r, d))
             rest == LongFrac(top[2], d, n - 1)
         IN  <<Append(rest[1], top[1]), rest[2]>>

\* Limbs of the quotient computed after the point: enough for Precision
\* bits and a bit to round on, whatever the operands.
QuotLimbs == 5

\* A float is <<s, m, e>>: the value s * m * 2^e with s the sign (1 or -1)
\* and m odd; zero is s = 0, m = 0, e = 0; with m = 0 and e = 1 it is the
\* infinity of sign s, or NaN for s = 0.
Zero == <<0, <<>>, 0>>
NaN == <<0, <<>>, 1>>
Inf == <<1, <<>>, 1>>

\* The infinity of sign s; NaN for s = 0.
InfOf(s) == <<s, <<>>, 1>>

IsNaN(a) == a = NaN
IsFinite(a) == a[2] # <<>> \/ a[3] = 0

\* The float s * n * 2^e, for an n of at most Precision bits and e >= MinExp.
Exact(s, n, e) ==
    IF n = <<>> THEN Zero
    ELSE IF BLen(n) + e > MaxExp THEN InfOf(s)
    ELSE LET z == TrailingZeros(n)
         IN  IF z = 0 THEN <<s, n, e>> ELSE <<s, BShr(n, z), e + z>>

\* The float nearest to s * (n + f) * 2^e, ties to the even significand,
\* where f = 0, or 0 < f < 1 when `more`.
Round(s, n, e, more) ==
    LET q == Max(e + BLen(n) - Precision, MinExp)   \* what the lowest kept bit is worth
        k == q - e                                  \* bits dropped
    IN  IF k <= 0 THEN Exact(s, n, e)
        ELSE LET kept == BShr(n, k)
                 half == BBit(n, k - 1) = 1
                 rest == more \/ BAnyBelow(n, k - 1)
                 up == half /\ (rest \/ BBit(n, k) = 1)
             IN  Exact(s, IF up THEN BAdd(kept, <<1>>) ELSE kept, q)

\* float(i) of an integer i
F(i) == Exact(Sgn(i), BigOf(Abs(i)), 0)

One == F(1)

\* Python's == and != on floats: NaN equals nothing.
FEq(a, b) == a = b /\ ~IsNaN(a)
FNe(a, b) == ~FEq(a, b)

FNeg(a) == <<-a[1], a[2], a[3]>>

\* s * x * 2^e + t * y * 2^e for signs s and t that are not 0: <<sign, n, e>>.
Aligned(s, x, t, y, e) ==
    LET c == BCmp(x, y)
    IN  IF s = t THEN <<s, BAdd(x, y), e>>
        ELSE IF c = 0 THEN Zero
        ELSE IF c > 0 THEN <<s, BSub(x, y), e>>
        ELSE <<t, BSub(y, x), e>>

\* a + b of finite a and b, not rounded: <<s, n, e>> for s * n * 2^e.
Sum(a, b) ==
    IF a[1] = 0 THEN b
    ELSE IF b[1] = 0 THEN a
    ELSE Aligned(a[1], BShl(a[2], a[3] - Min(a[3], b[3])),
                 b[1], BShl(b[2], b[3] - Min(a[3], b[3])), Min(a[3], b[3]))

\* The float nearest to the sum x.
Rounded(x) == Round(x[1], x[2], x[3], FALSE)

\* Finite a and b, a not zero, such that b is zero or all of it lies so far
\* below the lowest bit of a that a + b and a - b round to a.
Dominates(a, b) ==
    a[1] # 0 /\ (b[1] = 0 \/ a[3] >= b[3] + BLen(b[2]) + 2 * Precision)

FGt(a, b) == ~IsNaN(a) /\ ~IsNaN(b) /\ a # b /\
             (IF IsFinite(a) /\ IsFinite(b)
              THEN (IF Dominates(a, b) THEN a[1] > 0
                    ELSE IF Dominates(b, a) THEN b[1] < 0
                    ELSE Sum(a, FNeg(b))[1] > 0)
              ELSE IF IsFinite(a) THEN b[1] < 0
              ELSE a[1] > 0)

FAdd(a, b) ==
    IF IsNaN(a) \/ IsNaN(b) THEN NaN
    ELSE IF IsFinite(a) /\ IsFinite(b)
         THEN (IF Dominates(a, b) THEN a
               ELSE IF Dominates(b, a) THEN b
               ELSE Rounded(Sum(a, b)))
    ELSE IF IsFinite(a) THEN b
    ELSE IF IsFinite(b) THEN a
    ELSE IF a = b THEN a ELSE NaN

FSub(a, b) == FAdd(a, FNeg(b))

FMul(a, b) ==
    IF IsFinite(a) /\ IsFinite(b)
    THEN (IF a = Zero \/ b = Zero THEN Zero
          ELSE Round(a[1] * b[1], BMul(a[2], b[2]), a[3] + b[3], FALSE))
    ELSE IF IsNaN(a) \/ IsNaN(b) THEN NaN
    ELSE InfOf(a[1] * b[1])

\* The float nearest to s * 2^e times the quotient with the limbs `whole`
\* before the point and frac[1] after it, and more after those when frac[2].
QuotOf(s, e, whole, frac) ==
    Round(s, BTrim(frac[1] \o whole), e - LimbBits * Len(frac[1]), frac[2])

\* The quotient of a significand by a divisor d of one limb, `whole` being
\* ShortDiv's <<quotient, remainder>>.
ShortQuot(s, e, d, whole) == QuotOf(s, e, whole[1], ShortFrac(whole[2], d, QuotLimbs))

\* The quotient n / d of significands, for j the difference of their lengths
\* plus 1 and a number `bits` of bits, a multiple of LimbBits, above both
\* lengths: the operands are scaled so that the divisor has that many bits
\* and the dividend one less, which makes it less than the divisor and at
\* least a quarter of it.
LongQuot(s, e, n, d, j, bits) ==
    QuotOf(s, e + j, <<>>,
           LongFrac(BShl(n, bits - 1 - BLen(n)), BShl(d, bits - BLen(d)), QuotLimbs))

\* a / b of finite a and b, neither zero.  The quotient of the significands
\* is computed to QuotLimbs limbs after the point (fewer when it ends), by
\* short division for a divisor of one limb and limb by limb otherwise.
Quotient(a, b) ==
    IF Len(b[2]) = 1
    THEN ShortQuot(a[1] * b[1], a[3] - b[3], b[2][1], ShortDiv(a[2], b[2][1], Len(a[2]), 0))
    ELSE LongQuot(a[1] * b[1], a[3] - b[3], a[2], b[2], BLen(a[2]) - BLen(b[2]) + 1,
                  LimbBits * Max(Len(b[2]), Len(a[2]) + 1))

\* IEEE quotient by a divisor that is not zero.
FQuot(a, b) ==
    IF IsFinite(a) /\ IsFinite(b) THEN (IF a = Zero THEN Zero ELSE Quotient(a, b))
    ELSE IF IsNaN(a) \/ IsNaN(b) \/ (~IsFinite(b) /\ ~IsFinite(a)) THEN NaN
    ELSE IF IsFinite(b) THEN InfOf(a[1] * b[1])
    ELSE Zero

\* Limbs of a square root computed: Precision bits and bits to round on.
RootLimbs == 4

\* The integer square root of v < Base * Base, bit by bit from `bit` down:
\* r is the root so far.
RECURSIVE ISqrtFrom(_, _, _)
ISqrtFrom(v, r, bit) ==
    IF bit = 0 THEN r
    ELSE IF (r + bit) * (r + bit) <= v THEN ISqrtFrom(v, r + bit, bit \div 2)
    ELSE ISqrtFrom(v, r, bit \div 2)

\* The next limb of a square root is the greatest q with (2rB + q) * q <= rem,
\* for the root r so far, B = Base and the remainder rem with the next two
\* limbs appended.  It is at most rem / (2rB), that is h / r for
\* h = (rem \div B) \div 2, which the leading limbs of h and r estimate from
\* above.
RootEstimate(r, h) ==
    Min(Base - 1, (Limb(h, Len(r) + 1) * Base + Limb(h, Len(r))) \div r[Len(r)])

\* <<r * B + q, rem - t>> for the greatest q at or below the one given such
\* that t = (2rB + q) * q is at most rem.
RECURSIVE RootDigit(_, _, _)
RootDigit(r, rem, q) ==
    IF BCmp(BMulSmall(<<q>> \o BMulSmall(r, 2), q), rem) <= 0
    THEN << <<q>> \o r, BSub(rem, BMulSmall(<<q>> \o BMulSmall(r, 2), q)) >>
    ELSE RootDigit(r, rem, q - 1)

\* The square root of n, two limbs of n for one limb of the root: r and rem
\* are the root and the remainder of the limbs above limb i + 1:
\* <<root, remainder>>.
RECURSIVE Root(_, _, _, _)
Root(n, i, r, rem) ==
    IF i < 1 THEN <<r, rem>>
    ELSE LET step == RootDigit(r, BTrim(<<n[i], n[i + 1]>> \o rem),
                               RootEstimate(r, BShr(<<n[i + 1]>> \o rem, 1)))
         IN  Root(n, i - 2, step[1], step[2])

\* Root started with the integer square root top of the two highest limbs.
RootFrom(n, v, top) == Root(n, Len(n) - 3, <<top>>, BigOf(v - top * top))

\* The float nearest to 2^e times the square root `root`, as Root gives it.
RootOf(e, root) == Round(1, root[1], e, root[2] # <<>>)

\* The float nearest to the square root of n * 2^e, for an even e and an n
\* of 2 * RootLimbs limbs, the highest of them at least Base / 4.
SqrtOf(n, e) ==
    RootOf(e \div 2, RootFrom(n, n[Len(n)] * Base + n[Len(n) - 1],
                              ISqrtFrom(n[Len(n)] * Base + n[Len(n) - 1], 0, Base \div 2)))

\* The bits to shift a significand of `len` bits and exponent e by, so that
\* it fills 2 * RootLimbs limbs, but for the highest bit when the exponent
\* would be odd.
RootShift(len, e) ==
    2 * RootLimbs * LimbBits - len - ((e - 2 * RootLimbs * LimbBits + len) % 2)

\* The square root of a float that is not negative.
FSqrt(a) ==
    IF ~IsFinite(a) \/ a = Zero THEN a
    ELSE SqrtOf(BShl(a[2], RootShift(BLen(a[2]), a[3])), a[3] - RootShift(BLen(a[2]), a[3]))

---------------------------------------------------------------------------
(* Outcomes of calls.                                                      *)

None == <<>>
NoneInt == -1
NoneStr == "None"

Ok(v) == [exc |-> "none", val |-> v, str |-> ""]
OkStr(s) == [exc |-> "none", val |-> <<>>, str |-> s]
Raise(e) == [exc |-> e, val |-> <<>>, str |-> ""]
Returned(r) == r.exc = "none"

\* Python's a / b on floats: a zero divisor raises ZeroDivisionError.
PyDiv(a, b) == IF FEq(b, Zero) THEN Raise("ZeroDivisionError") ELSE Ok(<<FQuot(a, b)>>)

\* math.sqrt(a): a negative argument raises ValueError; NaN gives NaN.
PySqrt(a) == IF a[1] < 0 THEN Raise("ValueError") ELSE Ok(<<FSqrt(a)>>)

---------------------------------------------------------------------------
(* Matrices: row-major tuples of floats, as mkmat lays them out.           *)

\* M[r, c] of a matrix with `cols` columns (indices from 0, as in the code).
At(M, cols, r, c) == M[r * cols + c + 1]

SetAt(M, cols, r, c, v) == [M EXCEPT ![r * cols + c + 1] = v]

\* mkmat(rows, cols, L): a fresh matrix holding a copy of L.
mkmat(L) == L

RECURSIVE Dot(_, _, _, _, _)
\* sum over k < n of M[r, k] * v[k]
Dot(M, cols, r, v, n) ==
    IF n = 0 THEN Zero
    ELSE FAdd(Dot(M, cols, r, v, n - 1), FMul(At(M, cols, r, n - 1), v[n]))

\* cv.MatMul(M, src, dst) for a rows x cols matrix and a cols x 1 vector.
MatMul(M, rows, cols, src) == [r \in 1..rows |-> Dot(M, cols, r - 1, src, cols)]

---------------------------------------------------------------------------
(* PinholeCameraModel.                                                     *)

NoneRoi == [x_offset |-> NoneInt, y_offset |-> NoneInt, width |-> NoneInt, height |-> NoneInt]

\* PinholeCameraModel.__init__; mapx and mapy do not exist until rectifyImage.
PinholeInit ==
    [K |-> None, D |-> None, R |-> None, P |-> None, full_K |-> None, full_P |-> None,
     width |-> NoneInt, height |-> NoneInt, binning_x |-> NoneInt, binning_y |-> NoneInt,
     raw_roi |-> NoneRoi, tf_frame |-> NoneStr, stamp |-> NoneInt,
     mapx |-> None, mapy |-> None]

\* The ROI fromCameraInfo keeps: a copy of msg.roi, the all-zero ROI replaced
\* by the full image.
ResolveRoi(roi, width, height) ==
    IF roi.x_offset = 0 /\ roi.y_offset = 0 /\ roi.width = 0 /\ roi.height = 0
    THEN [roi EXCEPT !.width = width, !.height = height]
    ELSE roi

\* Mutation of MessageAfter: the sentinel resolved on msg.roi itself
\* (self.raw_roi = msg.roi, no copy).
MessageAfter_NoCopy(m) == [m EXCEPT !.roi = ResolveRoi(m.roi, m.width, m.height)]

\* What fromCameraInfo leaves in the caller's message: the sentinel is
\* resolved on copy.copy(msg.roi), the message keeps its ROI.
MessageAfter(m) == m

\* Mutation of Adjust: the ROI offset subtracted after the division by the
\* binning, M[0,2] / bx - x_offset.
Adjust_OffsetAfterBinning(M, cols, bx, by, roi) ==
    [M EXCEPT ![1] = FQuot(@, F(bx)),
              ![cols + 2] = FQuot(@, F(by)),
              ![3] = FSub(FQuot(@, F(bx)), F(roi.x_offset)),
              ![cols + 3] = FSub(FQuot(@, F(by)), F(roi.y_offset))]

\* "Adjust K and P for binning and ROI" on a matrix with `cols` columns:
\* the entries [0,0], [1,1], [0,2] and [1,2] are updated in place.
Adjust(M, cols, bx, by, roi) ==
    [M EXCEPT ![1] = FQuot(@, F(bx)),
              ![cols + 2] = FQuot(@, F(by)),
              ![3] = FQuot(FSub(@, F(roi.x_offset)), F(bx)),
              ![cols + 3] = FQuot(FSub(@, F(roi.y_offset)), F(by))]

\* PinholeCameraModel.fromCameraInfo(msg): the instance afterwards.
Pinhole_fromCameraInfo(self, m) ==
    LET bx == Max(1, m.binning_x)
        by == Max(1, m.binning_y)
        roi == ResolveRoi(m.roi, m.width, m.height)
    IN  [self EXCEPT
            !.K = Adjust(mkmat(m.K), 3, bx, by, roi),
            !.D = IF Len(m.D) > 0 THEN mkmat(m.D) ELSE None,
            !.R = mkmat(m.R),
            !.P = Adjust(mkmat(m.P), 4, bx, by, roi),
            !.full_K = mkmat(m.K),
            !.full_P = mkmat(m.P),
            !.width = m.width,
            !.height = m.height,
            !.binning_x = bx,
            !.binning_y = by,
            !.raw_roi = roi,
            !.tf_frame = m.frame_id,
            !.stamp = m.stamp]

\* The pixel of the homogeneous coordinates dst = (x, y, w): (x / w, y / w),
\* and (NaN, NaN) when w is 0.
PixelOf(dst) ==
    IF FNe(dst[3], Zero) THEN Ok(<<FQuot(dst[1], dst[3]), FQuot(dst[2], dst[3])>>)
    ELSE Ok(<<NaN, NaN>>)

\* PinholeCameraModel.project3dToPixel(point)
Pinhole_project3dToPixel(self, point) ==
    IF self.P = None THEN Raise("TypeError")
    ELSE PixelOf(MatMul(self.P, 3, 4, <<point[1], point[2], point[3], One>>))

\* The tuple (x, y, z) of the outcomes of the three divisions by norm, the
\* first that raised otherwise.
UnitOf(qx, qy, qz) ==
    IF ~Returned(qx) THEN qx
    ELSE IF ~Returned(qy) THEN qy
    ELSE IF ~Returned(qz) THEN qz
    ELSE Ok(<<qx.val[1], qy.val[1], qz.val[1]>>)

\* x /= norm; y /= norm; z = 1.0 / norm, `norm` being the outcome of math.sqrt.
Unit(x, y, norm) ==
    IF ~Returned(norm) THEN norm
    ELSE UnitOf(PyDiv(x, norm.val[1]), PyDiv(y, norm.val[1]), PyDiv(One, norm.val[1]))

\* The unit vector along (x, y, 1): norm = math.sqrt(x*x + y*y + 1) and the
\* three divisions by it.
Ray(x, y) == Unit(x, y, PySqrt(FAdd(FAdd(FMul(x, x), FMul(y, y)), One)))

\* The ray for the outcomes qx and qy of the two divisions, the first of
\* which may have raised, and then the second.
RayOf(qx, qy) ==
    IF ~Returned(qx) THEN qx
    ELSE IF ~Returned(qy) THEN qy
    ELSE Ray(qx.val[1], qy.val[1])

\* PinholeCameraModel.projectPixelTo3dRay(uv): x = (u - cx) / fx and
\* y = (v - cy) / fy, each of which raises when the focal length is 0, and
\* the unit vector along (x, y, 1).
Pinhole_projectPixelTo3dRay(self, uv) ==
    IF self.P = None THEN Raise("TypeError")
    ELSE RayOf(PyDiv(FSub(uv[1], At(self.P, 4, 0, 2)), At(self.P, 4, 0, 0)),
               PyDiv(FSub(uv[2], At(self.P, 4, 1, 2)), At(self.P, 4, 1, 1)))

\* getDeltaU / getDeltaV with f = P[i, i]: f * delta / Z, +inf at Z = 0.
DeltaPixel(self, i, delta, Z) ==
    IF self.P = None THEN Raise("TypeError")
    ELSE IF FEq(Z, Zero) THEN Ok(<<Inf>>)
    ELSE Ok(<<FQuot(FMul(At(self.P, 4, i, i), delta), Z)>>)

\* getDeltaX / getDeltaY with f = P[i, i]: Z * delta / f.
DeltaCartesian(self, i, delta, Z) ==
    IF self.P = None THEN Raise("TypeError")
    ELSE PyDiv(FMul(Z, delta), At(self.P, 4, i, i))

\* Mutation of getDeltaX: fy read in place of fx.
Pinhole_getDeltaX_UsesFy(self, deltaU, Z) == DeltaCartesian(self, 1, deltaU, Z)

Pinhole_getDeltaU(self, deltaX, Z) == DeltaPixel(self, 0, deltaX, Z)
Pinhole_getDeltaV(self, deltaY, Z) == DeltaPixel(self, 1, deltaY, Z)
Pinhole_getDeltaX(self, deltaU, Z) == DeltaCartesian(self, 0, deltaU, Z)
Pinhole_getDeltaY(self, deltaV, Z) == DeltaCartesian(self, 1, deltaV, Z)

AccessorNames ==
    {"intrinsicMatrix", "distortionCoeffs", "rotationMatrix", "projectionMatrix",
     "fullIntrinsicMatrix", "fullProjectionMatrix", "cx", "cy", "fx", "fy", "Tx", "Ty"}

\* self.P[r, c] read by a scalar accessor.
PEntry(self, r, c) ==
    IF self.P = None THEN Raise("TypeError") ELSE Ok(<<At(self.P, 4, r, c)>>)

\* The accessors of PinholeCameraModel.
Pinhole_accessor(self, name) ==
    CASE name = "intrinsicMatrix" -> Ok(self.K)
      [] name = "distortionCoeffs" -> Ok(self.D)
      [] name = "rotationMatrix" -> Ok(self.R)
      [] name = "projectionMatrix" -> Ok(self.P)
      [] name = "fullIntrinsicMatrix" -> Ok(self.full_K)
      [] name = "fullProjectionMatrix" -> Ok(self.full_P)
      [] name = "cx" -> PEntry(self, 0, 2)
      [] name = "cy" -> PEntry(self, 1, 2)
      [] name = "fx" -> PEntry(self, 0, 0)
      [] name = "fy" -> PEntry(self, 1, 1)
      [] name = "Tx" -> PEntry(self, 0, 3)
      [] name = "Ty" -> PEntry(self, 1, 3)

\* PinholeCameraModel.rectifyImage: the instance afterwards.  The two map
\* images are created with the size (width, height) before cv is given the
\* matrices, so they exist whether cv.InitUndistortRectifyMap and cv.Remap
\* return or raise; their pixels are cv's.  On a camera that was never
\* calibrated cv.CreateImage is given (None, None) and nothing is assigned.
Pinhole_rectifyImage(self) ==
    IF self.width = NoneInt THEN self
    ELSE [self EXCEPT !.mapx = <<F(self.width), F(self.height)>>,
                      !.mapy = <<F(self.width), F(self.height)>>]

\* The outcomes of rectifyImage.  cv.InitUndistortRectifyMap and cv.Remap
\* are outside this code: they return, or raise cv.error (on a D that is
\* None, or on images of another size), and which of the two is not
\* decided here.
Pinhole_rectifyImage_ret(self) ==
    IF self.width = NoneInt THEN {Raise("TypeError")}
    ELSE {OkStr("None"), Raise("cv.error")}

\* The outcomes of rectifyPoint.  The point returned is the one
\* cv.UndistortPoints computes from uv, K, D, R and P: it is held as those
\* five, the value being cv's function of them; or cv raises.
Pinhole_rectifyPoint(self, uv) ==
    IF self.K = None THEN {Raise("TypeError")}
    ELSE {[exc |-> "none", val |-> <<uv, self.K, self.D, self.R, self.P>>,
           str |-> "cv.UndistortPoints"],
          Raise("cv.error")}

---------------------------------------------------------------------------
(* StereoCameraModel.                                                      *)

\* StereoCameraModel.__init__; Q does not exist until fromCameraInfo.
StereoInit == [left |-> PinholeInit, right |-> PinholeInit, Q |-> None]

ZeroMat4 == [i \in 1..16 |-> Zero]

\* The entries of Q that fromCameraInfo writes before it evaluates 1 / tx.
QBeforeTx(fx, cx, cy) ==
    LET q1 == SetAt(ZeroMat4, 4, 0, 0, One)
        q2 == SetAt(q1, 4, 0, 3, FNeg(cx))
        q3 == SetAt(q2, 4, 1, 1, One)
        q4 == SetAt(q3, 4, 1, 3, FNeg(cy))
    IN  SetAt(q4, 4, 2, 3, fx)

\* The end of StereoCameraModel.fromCameraInfo: self.Q is replaced by Q, a
\* matrix that holds every entry but Q[3,2], and Q[3,2] is written when the
\* outcome `inv` of 1 / tx is a value.
Stereo_setQ(self, Q, inv) ==
    IF ~Returned(inv) THEN [self |-> [self EXCEPT !.Q = Q], ret |-> inv]
    ELSE [self |-> [self EXCEPT !.Q = SetAt(Q, 4, 3, 2, inv.val[1])],
          ret |-> OkStr("None")]

\* StereoCameraModel.fromCameraInfo once tx has been evaluated, `tx` being
\* the outcome of -P[0,3] / fx: an exception leaves Q untouched.
Stereo_updateQ(self, tx) ==
    IF ~Returned(tx) THEN [self |-> self, ret |-> tx]
    ELSE Stereo_setQ(self,
                     QBeforeTx(At(self.right.P, 4, 0, 0), At(self.right.P, 4, 0, 2),
                               At(self.right.P, 4, 1, 2)),
                     PyDiv(One, tx.val[1]))

\* StereoCameraModel.fromCameraInfo once both cameras have been updated.
Stereo_readRight(self) ==
    Stereo_updateQ(self, PyDiv(FNeg(At(self.right.P, 4, 0, 3)), At(self.right.P, 4, 0, 0)))

\* StereoCameraModel.fromCameraInfo(left_msg, right_msg): the instance
\* afterwards and the outcome of the call.  Both cameras are updated first;
\* -P[0,3] / fx raises before Q is touched; 1 / tx raises after self.Q has
\* been replaced by a matrix that holds every entry but Q[3,2].
Stereo_fromCameraInfo(self, left_msg, right_msg) ==
    Stereo_readRight([self EXCEPT !.left = Pinhole_fromCameraInfo(self.left, left_msg),
                                  !.right = Pinhole_fromCameraInfo(self.right, right_msg)])

\* StereoCameraModel.tfFrame: self.left.tfFrame(), a method PinholeCameraModel
\* does not define (it has the attribute tf_frame).
Stereo_tfFrame(self) == Raise("AttributeError")

\* The pair of the outcomes l and r of the two projections, the first of
\* which may have raised, and then the second.
BothPixels(l, r) ==
    IF ~Returned(l) THEN l
    ELSE IF ~Returned(r) THEN r
    ELSE Ok(l.val \o r.val)

\* StereoCameraModel.project3dToPixel(point): ((u_left, v_left), (u_right, v_right)),
\* held as <<u_left, v_left, u_right, v_right>>.
Stereo_project3dToPixel(self, point) ==
    BothPixels(Pinhole_project3dToPixel(self.left, point),
               Pinhole_project3dToPixel(self.right, point))

\* Mutation of PointOf: the monocular sentinel, NaN, at w = 0.
PointOf_NaN(dst) ==
    IF FNe(dst[4], Zero)
    THEN Ok(<<FQuot(dst[1], dst[4]), FQuot(dst[2], dst[4]), FQuot(dst[3], dst[4])>>)
    ELSE Ok(<<NaN, NaN, NaN>>)

\* The point of the homogeneous coordinates dst = (x, y, z, w):
\* (x / w, y / w, z / w), and (0, 0, 0) when w is 0.
PointOf(dst) ==
    IF FNe(dst[4], Zero)
    THEN Ok(<<FQuot(dst[1], dst[4]), FQuot(dst[2], dst[4]), FQuot(dst[3], dst[4])>>)
    ELSE Ok(<<Zero, Zero, Zero>>)

\* StereoCameraModel.projectPixelTo3d(left_uv, disparity)
Stereo_projectPixelTo3d(self, left_uv, disparity) ==
    IF self.Q = None THEN Raise("AttributeError")
    ELSE PointOf(MatMul(self.Q, 4, 4, <<left_uv[1], left_uv[2], disparity, One>>))

\* getZ and getDisparity: +inf at 0, else -right.P[0,3] / v.
BaselineOver(self, v) ==
    IF FEq(v, Zero) THEN Ok(<<Inf>>)
    ELSE IF self.right.P = None THEN Raise("TypeError")
    ELSE Ok(<<FQuot(FNeg(At(self.right.P, 4, 0, 3)), v)>>)

\* Mutation of getZ: the sign of the baseline term lost, Tx = right.P[0,3].
Stereo_getZ_SignLost(self, disparity) ==
    IF FEq(disparity, Zero) THEN Ok(<<Inf>>)
    ELSE IF self.right.P = None THEN Raise("TypeError")
    ELSE Ok(<<FQuot(At(self.right.P, 4, 0, 3), disparity)>>)

Stereo_getZ(self, disparity) == BaselineOver(self, disparity)

Stereo_getDisparity(self, Z) == BaselineOver(self, Z)

---------------------------------------------------------------------------
(* Inputs: the CameraInfo messages and the arguments the calls draw from.  *)

ZeroRoi == [x_offset |-> 0, y_offset |-> 0, width |-> 0, height |-> 0]
FullRoi == [x_offset |-> 0, y_offset |-> 0, width |-> ImageSize, height |-> ImageSize]
OffsetRoi == [x_offset |-> 1, y_offset |-> 2, width |-> ImageSize - 1, height |-> ImageSize - 2]
Rois == {ZeroRoi, FullRoi, OffsetRoi}

Identity3 == <<One, Zero, Zero, Zero, One, Zero, Zero, Zero, One>>

\* A value at which the quotients of the calls are rounded: the least n for
\* which 1/(1/n) is not n in float64.
RoundOff == 49

\* A sensor_msgs.msg.CameraInfo of a rectified camera:
\* K = [fx 0 cx; 0 fy cy; 0 0 1], P = [fx 0 cx tx; 0 fy cy 0; 0 0 1 0].
CameraInfo(fx, fy, cx, cy, tx, bx, by, roi, frame) ==
    [K |-> <<F(fx), Zero, F(cx), Zero, F(fy), F(cy), Zero, Zero, One>>,
     D |-> <<>>,
     R |-> Identity3,
     P |-> <<F(fx), Zero, F(cx), F(tx), Zero, F(fy), F(cy), Zero, Zero, Zero, One, Zero>>,
     width |-> ImageSize, height |-> ImageSize,
     binning_x |-> bx, binning_y |-> by, roi |-> roi,
     frame_id |-> frame, stamp |-> 1]

\* A message none of whose entries is special: skew, distortion, a y
\* translation, a third row of P that makes W differ from z.
GeneralInfo ==
    [K |-> <<F(2), F(1), F(3), F(1), F(2), F(1), F(1), F(1), F(1)>>,
     D |-> <<F(1), F(-1)>>,
     R |-> Identity3,
     P |-> <<F(2), F(1), F(3), F(1), F(1), F(2), F(1), F(-1), F(0), F(0), F(1), F(1)>>,
     width |-> ImageSize, height |-> ImageSize,
     binning_x |-> 2, binning_y |-> 1, roi |-> OffsetRoi,
     frame_id |-> "general", stamp |-> 2]

\* The messages given to PinholeCameraModel.fromCameraInfo.
CamInfos ==
    {CameraInfo(fx, ft[1], 1, 0, ft[2], 1, 1, ZeroRoi, "cam") :
        fx \in 0..MaxFocal, ft \in {<<0, 0>>, <<1, 0>>, <<1, 1>>}}
    \cup {CameraInfo(MaxFocal, MaxFocal, 3, 2, 0, bx, MaxBin - bx, roi, "binned") :
        bx \in 0..MaxBin, roi \in Rois}
    \cup {GeneralInfo, CameraInfo(RoundOff, RoundOff, 1, 0, 0, 1, 1, ZeroRoi, "long")}

\* The message pairs given to StereoCameraModel.fromCameraInfo: the right
\* message carries the baseline term P[0,3] (0 for no baseline), and a right
\* message may have the focal length 0.
StereoPair(fx, rfx, fy, tx) ==
    <<CameraInfo(fx, fy, 1, 1, 0, 1, 1, ZeroRoi, "left"),
      CameraInfo(rfx, fy, 1, 1, tx, 1, 1, ZeroRoi, "right")>>

StereoInfos ==
    {StereoPair(fx, fx, fy, -2 * b) : fx \in 1..MaxFocal, fy \in {1, MaxFocal}, b \in {0, MaxCoord}}
    \cup {StereoPair(1, 0, 1, tx) : tx \in {-1, 0}}

Points == {<<F(x), F(y), F(z)>> : x \in {0, MaxCoord}, y \in {-1, 1}, z \in (-1)..MaxCoord}
Pixels == {<<F(u), F(v)>> : u \in 0..MaxCoord, v \in {0, MaxCoord}}
Scalars == {F(v) : v \in (-1)..MaxCoord}

---------------------------------------------------------------------------
(* The calls.  call.src is empty for a call whose arguments the caller     *)
(* chose, and holds the arguments of the previous call when the caller     *)
(* passes on what that call returned.                                      *)

Call(op, args, src, msgs, ret) ==
    [op |-> op, args |-> args, src |-> src, msgs |-> msgs, ret |-> ret]

\* The arguments a call may take: chosen from `base`, or `passed` on from the
\* previous call when that call was `prev`, returned, and was not itself
\* passed a result.
Arguments(base, prev, passed) ==
    {[args |-> a, src |-> <<>>] : a \in base}
    \cup (IF call.op = prev /\ Returned(call.ret) /\ call.src = <<>>
          THEN {[args |-> passed, src |-> call.args]}
          ELSE {})

Init ==
    /\ cam = PinholeInit
    /\ stereo = StereoInit
    /\ msg = <<>>
    /\ call = Call("__init__", <<>>, <<>>, <<>>, OkStr("None"))

\* fromCameraInfo with one of the messages `infos`.
FromCameraInfoOf(infos) ==
    \E m \in infos :
        /\ cam' = Pinhole_fromCameraInfo(cam, m)
        /\ msg' = <<MessageAfter(m)>>
        /\ call' = Call("fromCameraInfo", <<>>, <<>>, <<m>>, OkStr("None"))
        /\ UNCHANGED stereo

FromCameraInfo == FromCameraInfoOf(CamInfos)

RectifyImage ==
    \E ret \in Pinhole_rectifyImage_ret(cam) :
        /\ cam' = Pinhole_rectifyImage(cam)
        /\ call' = Call("rectifyImage", <<>>, <<>>, <<>>, ret)
        /\ UNCHANGED <<stereo, msg>>

RectifyPoint ==
    \E uv \in Pixels :
        \E ret \in Pinhole_rectifyPoint(cam, uv) :
            /\ call' = Call("rectifyPoint", uv, <<>>, <<>>, ret)
            /\ UNCHANGED <<cam, stereo, msg>>

Project3dToPixel ==
    \E point \in Points :
        /\ call' = Call("project3dToPixel", point, <<>>, <<>>,
                        Pinhole_project3dToPixel(cam, point))
        /\ UNCHANGED <<cam, stereo, msg>>

\* uv is chosen, or is what project3dToPixel has just returned.
ProjectPixelTo3dRay ==
    \E a \in Arguments(Pixels, "project3dToPixel", call.ret.val) :
        /\ call' = Call("projectPixelTo3dRay", a.args, a.src, <<>>,
                        Pinhole_projectPixelTo3dRay(cam, a.args))
        /\ UNCHANGED <<cam, stereo, msg>>

DeltaArgs == {<<F(d), Z>> : d \in {-1, 2}, Z \in Scalars}

\* (deltaX, Z) is chosen, or deltaX is what getDeltaX has just returned for Z.
GetDeltaU ==
    \E a \in Arguments(DeltaArgs, "getDeltaX", call.ret.val \o <<call.args[2]>>) :
        /\ call' = Call("getDeltaU", a.args, a.src, <<>>,
                        Pinhole_getDeltaU(cam, a.args[1], a.args[2]))
        /\ UNCHANGED <<cam, stereo, msg>>

\* (deltaY, Z) is chosen, or deltaY is what getDeltaY has just returned for Z.
GetDeltaV ==
    \E a \in Arguments(DeltaArgs, "getDeltaY", call.ret.val \o <<call.args[2]>>) :
        /\ call' = Call("getDeltaV", a.args, a.src, <<>>,
                        Pinhole_getDeltaV(cam, a.args[1], a.args[2]))
        /\ UNCHANGED <<cam, stereo, msg>>

GetDeltaX ==
    \E a \in DeltaArgs :
        /\ call' = Call("getDeltaX", a, <<>>, <<>>, Pinhole_getDeltaX(cam, a[1], a[2]))
        /\ UNCHANGED <<cam, stereo, msg>>

GetDeltaY ==
    \E a \in DeltaArgs :
        /\ call' = Call("getDeltaY", a, <<>>, <<>>, Pinhole_getDeltaY(cam, a[1], a[2]))
        /\ UNCHANGED <<cam, stereo, msg>>

Accessor ==
    \E name \in AccessorNames :
        /\ call' = Call(name, <<>>, <<>>, <<>>, Pinhole_accessor(cam, name))
        /\ UNCHANGED <<cam, stereo, msg>>

Next ==
    \/ FromCameraInfo
    \/ RectifyImage
    \/ RectifyPoint
    \/ Project3dToPixel
    \/ ProjectPixelTo3dRay
    \/ GetDeltaU
    \/ GetDeltaV
    \/ GetDeltaX
    \/ GetDeltaY
    \/ Accessor

\* A PinholeCameraModel and its callers.
Spec == Init /\ [][Next]_vars

StereoFromCameraInfo ==
    \E pair \in StereoInfos :
        LET done == Stereo_fromCameraInfo(stereo, pair[1], pair[2])
        IN  /\ stereo' = done.self
            /\ msg' = <<MessageAfter(pair[1]), MessageAfter(pair[2])>>
            /\ call' = Call("fromCameraInfo", <<>>, <<>>, pair, done.ret)
            /\ UNCHANGED cam

TfFrame ==
    /\ call' = Call("tfFrame", <<>>, <<>>, <<>>, Stereo_tfFrame(stereo))
    /\ UNCHANGED <<cam, stereo, msg>>

StereoProject3dToPixel ==
    \E point \in Points :
        /\ call' = Call("project3dToPixel", point, <<>>, <<>>,
                        Stereo_project3dToPixel(stereo, point))
        /\ UNCHANGED <<cam, stereo, msg>>

DisparityArgs == {<<F(u), One, d>> : u \in 0..MaxCoord, d \in Scalars}

\* What a caller passes on from project3dToPixel's ((uL, vL), (uR, vR)):
\* the left pixel and the disparity uL - uR.
LeftPixelAndDisparity(v) ==
    IF Len(v) = 4 THEN <<v[1], v[2], FSub(v[1], v[3])>> ELSE <<>>

ProjectPixelTo3d ==
    \E a \in Arguments(DisparityArgs, "project3dToPixel", LeftPixelAndDisparity(call.ret.val)) :
        /\ call' = Call("projectPixelTo3d", a.args, a.src, <<>>,
                        Stereo_projectPixelTo3d(stereo, <<a.args[1], a.args[2]>>, a.args[3]))
        /\ UNCHANGED <<cam, stereo, msg>>

ScalarArgs == {<<v>> : v \in Scalars \cup {F(RoundOff)}}

\* disparity is chosen, or is what getDisparity has just returned.
GetZ ==
    \E a \in Arguments(ScalarArgs, "getDisparity", call.ret.val) :
        /\ call' = Call("getZ", a.args, a.src, <<>>, Stereo_getZ(stereo, a.args[1]))
        /\ UNCHANGED <<cam, stereo, msg>>

\* Z is chosen, or is what getZ has just returned.
GetDisparity ==
    \E a \in Arguments(ScalarArgs, "getZ", call.ret.val) :
        /\ call' = Call("getDisparity", a.args, a.src, <<>>,
                        Stereo_getDisparity(stereo, a.args[1]))
        /\ UNCHANGED <<cam, stereo, msg>>

StereoNext ==
    \/ StereoFromCameraInfo
    \/ TfFrame
    \/ StereoProject3dToPixel
    \/ ProjectPixelTo3d
    \/ GetZ
    \/ GetDisparity

\* A StereoCameraModel and its callers.
StereoSpec == Init /\ [][StereoNext]_vars

\* The messages given to PinholeCameraModel.fromCameraInfo under BothSpec:
\* the all-zero ROI with and without binning 0, a focal length 0, and the
\* general message.
FrameInfos ==
    {m \in CamInfos : m.roi = ZeroRoi /\ m.binning_x = 0}
    \cup {CameraInfo(fx, fx, 1, 0, 0, 1, 1, ZeroRoi, "cam") : fx \in {0, MaxFocal}}
    \cup {GeneralInfo}

\* The caller works with the PinholeCameraModel, the StereoCameraModel is
\* as it was constructed; and the other way round.
OnPinhole == stereo = StereoInit
OnStereo == cam = PinholeInit

BothNext ==
    \/ OnPinhole /\ FromCameraInfoOf(FrameInfos)
    \/ OnPinhole /\ RectifyImage
    \/ OnPinhole /\ RectifyPoint
    \/ OnPinhole /\ Project3dToPixel
    \/ OnPinhole /\ ProjectPixelTo3dRay
    \/ OnPinhole /\ GetDeltaU
    \/ OnPinhole /\ GetDeltaV
    \/ OnPinhole /\ GetDeltaX
    \/ OnPinhole /\ GetDeltaY
    \/ OnPinhole /\ Accessor
    \/ OnStereo /\ StereoFromCameraInfo
    \/ OnStereo /\ TfFrame
    \/ OnStereo /\ StereoProject3dToPixel
    \/ OnStereo /\ ProjectPixelTo3d
    \/ OnStereo /\ GetZ
    \/ OnStereo /\ GetDisparity

\* Every call of either class.  The two instances share no state and no
\* call on one reads or writes the other, so the caller is taken to work
\* with one of them; the frame of a call does not depend on the focal
\* length, so the PinholeCameraModel is given fewer messages than under Spec.
BothSpec == Init /\ [][BothNext]_vars

---------------------------------------------------------------------------
(* Properties of StereoCameraModel, checked under StereoSpec.              *)

\* The last stereo fromCameraInfo returned normally (its outcome depends on
\* the two messages only).
StereoCompleted ==
    /\ Len(msg) = 2
    /\ Returned(Stereo_fromCameraInfo(StereoInit, msg[1], msg[2]).ret)

\* C1: StereoCameraModel.fromCameraInfo never raises on a degenerate
\* baseline: when the right message has P[0,3] = 0 and fx # 0, the call
\* returns normally and leaves an infinite Q[3,2].
C1_ZeroBaselineStoresInfinity ==
    (/\ call.op = "fromCameraInfo"
     /\ Len(call.msgs) = 2
     /\ FEq(At(call.msgs[2].P, 4, 0, 3), Zero)
     /\ FNe(At(stereo.right.P, 4, 0, 0), Zero))
    => (/\ Returned(call.ret)
        /\ stereo.Q # None
        /\ At(stereo.Q, 4, 3, 2) \in {Inf, FNeg(Inf)})

\* C2: on a StereoCameraModel whose fromCameraInfo has completed, tfFrame
\* returns normally, and returns the left message's frame_id.
C2_TfFrameIsLeftFrame ==
    (call.op = "tfFrame" /\ StereoCompleted)
    => (Returned(call.ret) /\ call.ret.str = msg[1].frame_id)

\* C3 as claimed: on a calibrated model, whatever right.P[0,3] is,
\* getZ(getDisparity(Z)) = Z for Z # 0 and getDisparity(getZ(d)) = d for d # 0.
C3_InverseForEveryBaseline ==
    (/\ call.op \in {"getZ", "getDisparity"}
     /\ call.src # <<>>
     /\ stereo.right.P # None
     /\ FNe(call.src[1], Zero))
    => (Returned(call.ret) /\ FEq(call.ret.val[1], call.src[1]))

\* |a - b| <= |b| / 2^k for finite a and b
Close(a, b, k) ==
    LET d == Sum(a, FNeg(b))
        e == Min(d[3] + k, b[3])
    IN  BCmp(BShl(d[2], d[3] + k - e), BShl(b[2], b[3] - e)) <= 0


\* C3, amended: for a calibration whose right.P[0,3] is not 0, the round
\* trips return the value they started from up to the rounding of the two
\* divisions: a relative error of at most 2^-51.
C3_InverseForNonZeroBaseline ==
    (/\ call.op \in {"getZ", "getDisparity"}
     /\ call.src # <<>>
     /\ stereo.right.P # None
     /\ FNe(At(stereo.right.P, 4, 0, 3), Zero)
     /\ FNe(call.src[1], Zero))
    => (/\ Returned(call.ret)
        /\ IsFinite(call.ret.val[1])
        /\ Close(call.ret.val[1], call.src[1], 51))

\* getZ has inverted getDisparity on a calibration with a baseline, for a
\* depth at which the divisions round: the depth returned is not the depth
\* RoundOff the round trip started from.
C3_Witness ==
    /\ call.op = "getZ"
    /\ call.src = <<F(RoundOff)>>
    /\ stereo.right.P # None
    /\ FNe(At(stereo.right.P, 4, 0, 3), Zero)
    /\ Returned(call.ret)
    /\ FNe(call.ret.val[1], call.src[1])

\* C4: projectPixelTo3d inverts project3dToPixel: on a model whose
\* fromCameraInfo has completed, for a point with z # 0 whose projections
\* have a disparity uL - uR # 0, projectPixelTo3d((uL, vL), uL - uR) is the point.
C4_TriangulationInvertsProjection ==
    (/\ call.op = "projectPixelTo3d"
     /\ call.src # <<>>
     /\ StereoCompleted
     /\ FNe(call.src[3], Zero)
     /\ FNe(call.args[3], Zero))
    => (Returned(call.ret) /\ call.ret.val = call.src)

\* IEEE a / b, the quotient the claim's formula for Q[3,2] denotes.
IEEEDiv(a, b) ==
    IF b = Zero THEN (IF IsFinite(a) THEN InfOf(a[1]) ELSE a) ELSE FQuot(a, b)

\* The Q that C6 derives from the right camera's P.
QOfRightCamera(P) ==
    SetAt(QBeforeTx(At(P, 4, 0, 0), At(P, 4, 0, 2), At(P, 4, 1, 2)), 4, 3, 2,
          IEEEDiv(One, IEEEDiv(FNeg(At(P, 4, 0, 3)), At(P, 4, 0, 0))))

\* C6: once fromCameraInfo has been called, however each call ended, Q is
\* the matrix derived from the right camera's current P.
C6_QMatchesRightCamera ==
    Len(msg) = 2 => stereo.Q = QOfRightCamera(stereo.right.P)

\* W of P * [x, y, z, 1] and of Q * [u, v, d, 1], and the numerators.
Row(M, cols, r, v) == Dot(M, cols, r, v, cols)

PixelIs(P, point, u, v) ==
    LET h == <<point[1], point[2], point[3], One>>
        W == Row(P, 4, 2, h)
    IN  IF W = Zero THEN IsNaN(u) /\ IsNaN(v)
        ELSE /\ u = FQuot(Row(P, 4, 0, h), W)
             /\ v = FQuot(Row(P, 4, 1, h), W)
             /\ ~(IsNaN(u) /\ IsNaN(v))

PointIs(Q, uvd, p) ==
    LET h == <<uvd[1], uvd[2], uvd[3], One>>
        W == Row(Q, 4, 3, h)
    IN  IF W = Zero THEN p = <<Zero, Zero, Zero>>
        ELSE /\ p = <<FQuot(Row(Q, 4, 0, h), W), FQuot(Row(Q, 4, 1, h), W),
                      FQuot(Row(Q, 4, 2, h), W)>>
             /\ p # <<Zero, Zero, Zero>>

\* C8: project3dToPixel returns (NaN, NaN) exactly when W = 0 and
\* (X/W, Y/W) otherwise (for each of the two cameras); projectPixelTo3d
\* returns (0, 0, 0) exactly when W = 0, in particular at disparity 0 where
\* getZ returns +inf, and (X/W, Y/W, Z/W) otherwise; neither raises.
C8_Sentinels ==
    /\ (call.op = "project3dToPixel" /\ stereo.left.P # None)
       => (/\ Returned(call.ret)
           /\ PixelIs(stereo.left.P, call.args, call.ret.val[1], call.ret.val[2])
           /\ PixelIs(stereo.right.P, call.args, call.ret.val[3], call.ret.val[4]))
    /\ (call.op = "projectPixelTo3d" /\ stereo.Q # None)
       => (/\ Returned(call.ret)
           /\ PointIs(stereo.Q, call.args, call.ret.val)
           /\ (call.args[3] = Zero => call.ret.val = <<Zero, Zero, Zero>>))
    /\ (call.op = "getZ" /\ call.args[1] = Zero) => call.ret = Ok(<<Inf>>)

\* projectPixelTo3d has returned the zero triple for disparity 0 on a model
\* whose Q is complete.
C8_Witness ==
    /\ call.op = "projectPixelTo3d"
    /\ StereoCompleted
    /\ call.args[3] = Zero
    /\ call.ret = Ok(<<Zero, Zero, Zero>>)

\* project3dToPixel has returned the NaN pair for both cameras.
C8_NaNReached ==
    /\ call.op = "project3dToPixel"
    /\ StereoCompleted
    /\ call.ret = Ok(<<NaN, NaN, NaN, NaN>>)

---------------------------------------------------------------------------
(* Properties of PinholeCameraModel, checked under Spec.                   *)

\* C5: for a calibrated camera and a point with z > 0, the ray
\* (rx, ry, rz) that projectPixelTo3dRay returns for the point's pixel
\* satisfies rx*z = x*rz, ry*z = y*rz and rz > 0, the products being the
\* code's float products.  The claim is stated here for the cameras with
\* fx # 0 and fy # 0 only, where the ray exists, although it speaks of
\* any P.
C5_RayParallelToPoint ==
    (/\ call.op = "projectPixelTo3dRay"
     /\ call.src # <<>>
     /\ cam.P # None
     /\ FNe(At(cam.P, 4, 0, 0), Zero)
     /\ FNe(At(cam.P, 4, 1, 1), Zero)
     /\ FGt(call.src[3], Zero))
    => (/\ Returned(call.ret)
        /\ FEq(FMul(call.ret.val[1], call.src[3]), FMul(call.src[1], call.ret.val[3]))
        /\ FEq(FMul(call.ret.val[2], call.src[3]), FMul(call.src[2], call.ret.val[3]))
        /\ FGt(call.ret.val[3], Zero))

\* Entry i of the adjusted matrix C7 describes, for a matrix with `cols`
\* columns: [0,0] and [1,1] divided by the binning, [0,2] and [1,2] moved by
\* the ROI offset and divided by the binning, every other entry as given.
AdjustedEntry(full, cols, i, bx, by, roi) ==
    IF i = 1 THEN FQuot(full[i], F(bx))
    ELSE IF i = cols + 2 THEN FQuot(full[i], F(by))
    ELSE IF i = 3 THEN FQuot(FSub(full[i], F(roi.x_offset)), F(bx))
    ELSE IF i = cols + 3 THEN FQuot(FSub(full[i], F(roi.y_offset)), F(by))
    ELSE full[i]

\* C7: after any sequence of fromCameraInfo calls the state is that of the
\* last message: full_K and full_P are its K and P; the binning is the
\* message's, 0 taken as 1; the ROI is the message's, the all-zero ROI taken
\* as the full image; K and P are full_K and full_P adjusted entry by entry;
\* and the all-zero ROI gives the K and P of the full-image ROI.
C7_StateIsLastMessage ==
    (Len(msg) = 1) =>
        LET m == msg[1]
            bx == IF m.binning_x = 0 THEN 1 ELSE m.binning_x
            by == IF m.binning_y = 0 THEN 1 ELSE m.binning_y
            roi == IF m.roi = ZeroRoi
                   THEN [x_offset |-> 0, y_offset |-> 0, width |-> m.width, height |-> m.height]
                   ELSE m.roi
        IN  /\ cam.full_K = m.K
            /\ cam.full_P = m.P
            /\ cam.binning_x = bx
            /\ cam.binning_y = by
            /\ cam.raw_roi = roi
            /\ cam.width = m.width /\ cam.height = m.height
            /\ cam.tf_frame = m.frame_id /\ cam.stamp = m.stamp
            /\ cam.R = m.R
            /\ cam.D = m.D
            /\ Len(cam.K) = 9 /\ Len(cam.P) = 12
            /\ \A i \in 1..9 : cam.K[i] = AdjustedEntry(m.K, 3, i, bx, by, roi)
            /\ \A i \in 1..12 : cam.P[i] = AdjustedEntry(m.P, 4, i, bx, by, roi)
            /\ m.roi = ZeroRoi =>
                 LET full == Pinhole_fromCameraInfo(cam, [m EXCEPT !.roi = FullRoi])
                 IN  cam.K = full.K /\ cam.P = full.P

\* fromCameraInfo, with binning 2 x 1 and an offset ROI, has replaced an
\* earlier calibration (one rectifyImage has run on, hence the map images):
\* K[0,0] = 2/2, K[0,2] = (3-1)/2, K[1,2] = (1-2)/1.
C7_Witness ==
    /\ call.op = "fromCameraInfo"
    /\ Len(msg) = 1
    /\ msg[1] = GeneralInfo
    /\ cam.mapx # None
    /\ cam.K = <<F(1), F(1), F(1), F(1), F(2), F(-1), F(1), F(1), F(1)>>

\* The fields C9 lists for a PinholeCameraModel.
CalibrationState(c) ==
    <<c.K, c.D, c.R, c.P, c.full_K, c.full_P, c.width, c.height,
      c.binning_x, c.binning_y, c.raw_roi, c.tf_frame, c.stamp>>

\* The fields C9 lists for a StereoCameraModel: those of both cameras, and Q.
StereoCalibrationState(s) ==
    <<CalibrationState(s.left), CalibrationState(s.right), s.Q>>

\* The calls whose outcome is decided by cv.
CvCalls == {"rectifyImage", "rectifyPoint"}

\* Outcomes a and b of one call made twice: the same; or, for a call whose
\* outcome is cv's, one of them is cv's exception.
SameResult(op, a, b) ==
    a = b \/ (op \in CvCalls /\ "cv.error" \in {a.exc, b.exc})

C9_PinholeReached ==
    /\ call.op = "rectifyImage"
    /\ cam.mapx # None
    /\ Len(msg) = 1
    /\ msg[1].roi = ZeroRoi
    /\ cam.raw_roi = FullRoi

\* C10 as claimed: on a calibrated camera, whatever fx and fy are, for
\* Z # 0 getDeltaU(getDeltaX(du, Z), Z) = du and getDeltaV(getDeltaY(dv, Z), Z) = dv
\* and neither call raises; at Z = 0 getDeltaU and getDeltaV return +inf and
\* getDeltaX and getDeltaY return 0.
C10_DeltaInverseForEveryFocal ==
    (cam.P # None /\ call.op \in {"getDeltaU", "getDeltaV", "getDeltaX", "getDeltaY"})
    => /\ Returned(call.ret)
       /\ (call.src # <<>> /\ FNe(call.args[2], Zero))
            => FEq(call.ret.val[1], call.src[1])
       /\ (call.op \in {"getDeltaU", "getDeltaV"} /\ FEq(call.args[2], Zero))
            => call.ret.val[1] = Inf
       /\ (call.op \in {"getDeltaX", "getDeltaY"} /\ FEq(call.args[2], Zero))
            => call.ret.val[1] = Zero

\* The focal length a delta conversion divides or multiplies by.
FocalOf(op) ==
    IF op \in {"getDeltaU", "getDeltaX"} THEN At(cam.P, 4, 0, 0) ELSE At(cam.P, 4, 1, 1)

\* C10, amended: on a calibrated camera whose focal length (fx for
\* getDeltaU and getDeltaX, fy for getDeltaV and getDeltaY) is not 0 no call
\* raises, the round trip returns the delta it started from up to the
\* rounding of its two products and two quotients (a relative error of at
\* most 2^-50), and at Z = 0 the calls return what the claim says.
C10_DeltaInverseForNonZeroFocal ==
    (/\ cam.P # None
     /\ call.op \in {"getDeltaU", "getDeltaV", "getDeltaX", "getDeltaY"}
     /\ FNe(FocalOf(call.op), Zero))
    => /\ Returned(call.ret)
       /\ (call.src # <<>> /\ FNe(call.args[2], Zero))
            => (IsFinite(call.ret.val[1]) /\ Close(call.ret.val[1], call.src[1], 50))
       /\ (call.op \in {"getDeltaU", "getDeltaV"} /\ FEq(call.args[2], Zero))
            => call.ret.val[1] = Inf
       /\ (call.op \in {"getDeltaX", "getDeltaY"} /\ FEq(call.args[2], Zero))
            => call.ret.val[1] = Zero

\* getDeltaU has inverted getDeltaX on a camera whose focal length makes
\* the quotients round: for fx = RoundOff, du = 2 and Z = -1 the delta
\* returned is not the delta the round trip started from.
C10_Witness ==
    /\ call.op = "getDeltaU"
    /\ call.src = <<F(2), F(-1)>>
    /\ cam.P # None
    /\ At(cam.P, 4, 0, 0) = F(RoundOff)
    /\ Returned(call.ret)
    /\ FNe(call.ret.val[1], call.src[1])

====
